---- MODULE Spec2Model ----
(***************************************************************************)
(* The NBT encoder of src/src/encode.rs as a state machine.                *)
(*                                                                         *)
(* One call of write_compound_tag / write_gzip_compound_tag /              *)
(* write_zlib_compound_tag is modelled.  The recursive walk of write_tag   *)
(* is kept as an explicit continuation (stack); every call the code makes  *)
(* on the writer is one step whose outcome (accepted, partly accepted,     *)
(* failed) is chosen by the sink.                                          *)
(***************************************************************************)
EXTENDS Integers, Sequences, FiniteSets, TLC

VARIABLES
    tree,      \* the CompoundTag handed to the encoder
    entry,     \* "none" | "plain" | "gzip" | "zlib": the public function called
    pc,        \* "start" | "run" | "drop" | "done"
    stack,     \* continuation of the walk: the calls still to be made, head first
    sink,      \* the bytes the writer has accepted, in order
    result,    \* "none" | "Ok" | "Err": what the call returns
    log,       \* one entry per call made on the writer: [ln, at, n, ok]
    spans,     \* one entry per write_tag call that returned Ok: [p, from, to]
    strs,      \* one entry per write_string call that returned Ok: [s, from, to]
    emitted,   \* number of accepted bytes that have reached the underlying sink
    dumps,     \* how often the encoder has passed buffered output on during the walk
    footer     \* the compressed stream's trailer has reached the underlying sink

vars == <<tree, entry, pc, stack, sink, result, log, spans, strs, emitted, dumps, footer>>

----------------------------------------------------------------------------
(* Bounds of the model.                                                    *)

\* arrays (ByteArray, IntArray, LongArray) have 0..MaxArr elements
MaxArr == 2
\* homogeneous lists of Int have 0..MaxList elements
MaxList == 2
\* the longest string has 2^16 + LongExtra bytes
LongExtra == 1
\* during one call the sink takes less than the buffer of a write at most MaxShort times
MaxShort == 1
\* during one walk a compressing encoder passes buffered output on at most MaxDumps times
MaxDumps == 1

----------------------------------------------------------------------------
(* Byte strings.  A byte string (&[u8], Vec<u8>, the bytes of a &str) is   *)
(* kept run-length encoded: a sequence of runs [c, n], n >= 1 bytes of     *)
(* value c, no two neighbouring runs of the same c.  Every byte string has *)
(* exactly one such form, so equality of forms is equality of strings.     *)

Run(c, n) == [c |-> c, n |-> n]

\* a ++ b
BCat(a, b) ==
    IF a = <<>> THEN b
    ELSE IF b = <<>> THEN a
    ELSE IF a[Len(a)].c = b[1].c
      THEN SubSeq(a, 1, Len(a) - 1) \o <<Run(b[1].c, a[Len(a)].n + b[1].n)>> \o Tail(b)
      ELSE a \o b

\* the byte string of a sequence of byte values
RECURSIVE Pack(_)
Pack(q) == IF q = <<>> THEN <<>> ELSE BCat(Pack(SubSeq(q, 1, Len(q) - 1)), <<Run(q[Len(q)], 1)>>)

\* the sequence of byte values of a (short) byte string
RECURSIVE Unpack(_)
Unpack(a) ==
    IF a = <<>> THEN <<>> ELSE [i \in 1..a[1].n |-> a[1].c] \o Unpack(Tail(a))

\* a.len(), summed by halves
RECURSIVE BLenRange(_, _, _)
BLenRange(a, lo, hi) ==
    IF lo > hi THEN 0
    ELSE IF lo = hi THEN a[lo].n
    ELSE LET mid == (lo + hi) \div 2
         IN  BLenRange(a, lo, mid) + BLenRange(a, mid + 1, hi)

BLen(a) == BLenRange(a, 1, Len(a))

\* the first n bytes of the runs lo..hi of a
RECURSIVE BTakeRange(_, _, _, _)
BTakeRange(a, lo, hi, n) ==
    IF n <= 0 \/ lo > hi THEN <<>>
    ELSE IF lo = hi THEN <<Run(a[lo].c, IF a[lo].n <= n THEN a[lo].n ELSE n)>>
    ELSE LET mid == (lo + hi) \div 2
             l == BLenRange(a, lo, mid)
         IN  IF n <= l THEN BTakeRange(a, lo, mid, n)
             ELSE SubSeq(a, lo, mid) \o BTakeRange(a, mid + 1, hi, n - l)

\* &a[..n]
BTake(a, n) == BTakeRange(a, 1, Len(a), n)

\* the runs lo..hi of a without their first n bytes
RECURSIVE BDropRange(_, _, _, _)
BDropRange(a, lo, hi, n) ==
    IF lo > hi THEN <<>>
    ELSE IF n <= 0 THEN SubSeq(a, lo, hi)
    ELSE IF lo = hi
         THEN IF a[lo].n <= n THEN <<>> ELSE <<Run(a[lo].c, a[lo].n - n)>>
    ELSE LET mid == (lo + hi) \div 2
             l == BLenRange(a, lo, mid)
         IN  IF l <= n THEN BDropRange(a, mid + 1, hi, n - l)
             ELSE BDropRange(a, lo, mid, n) \o SubSeq(a, mid + 1, hi)

\* &a[n..]
BDrop(a, n) == BDropRange(a, 1, Len(a), n)

\* &a[from..to]
BSub(a, from, to) == BTake(BDrop(a, from), to - from)

\* a string of n bytes, all of value c
Rep(c, n) == IF n = 0 THEN <<>> ELSE <<Run(c, n)>>

----------------------------------------------------------------------------
(* Fixed-width integers.                                                   *)

\* 2^16: `as u16` keeps the value modulo this
U16Mod == 65536

\* value.len() as u16
as_u16(n) == n % U16Mod

\* value.len() as u32: n mod 2^32, computed on 16-bit halves
as_u32(n) == ((n \div U16Mod) % U16Mod) * U16Mod + (n % U16Mod)

\* to_be_bytes of a w-byte integer (two's complement for negative v):
\* the last byte is v mod 256, the bytes before it encode floor(v / 256)
RECURSIVE BE(_, _)
BE(v, w) == IF w = 0 THEN <<>> ELSE Append(BE(v \div 256, w - 1), v % 256)

\* f32::to_bits().to_be_bytes(): sign (1), exponent (8), mantissa (23)
F32Bytes(f) ==
    << f.s * 128 + (f.e \div 2),
       (f.e % 2) * 128 + (f.m \div 65536),
       (f.m \div 256) % 256,
       f.m % 256 >>

\* f64::to_bits().to_be_bytes(): sign (1), exponent (11), mantissa (20 + 32)
F64Bytes(f) ==
    << f.s * 128 + (f.e \div 16),
       (f.e % 16) * 16 + (f.mh \div 65536),
       (f.mh \div 256) % 256,
       f.mh % 256 >> \o BE(f.ml, 4)

----------------------------------------------------------------------------
(* The data model: Tag and CompoundTag.                                    *)

\* Tag::type_id(): the wire discriminator of each variant
type_id(tag) ==
    CASE tag.id = "Byte"      -> 1
      [] tag.id = "Short"     -> 2
      [] tag.id = "Int"       -> 3
      [] tag.id = "Long"      -> 4
      [] tag.id = "Float"     -> 5
      [] tag.id = "Double"    -> 6
      [] tag.id = "ByteArray" -> 7
      [] tag.id = "String"    -> 8
      [] tag.id = "List"      -> 9
      [] tag.id = "Compound"  -> 10
      [] tag.id = "IntArray"  -> 11
      [] tag.id = "LongArray" -> 12

T(id, v) == [id |-> id, v |-> v]

\* Option<String>
None == [some |-> FALSE, s |-> <<>>]
Some(s) == [some |-> TRUE, s |-> s]

\* CompoundTag { name, tags }
Compound(name, tags) == [name |-> name, tags |-> tags]
KV(name, tag) == [name |-> name, tag |-> tag]

----------------------------------------------------------------------------
(* The inputs: the CompoundTag values the encoder is called with.          *)

\* i32::MIN (also used as an i64 value)
MinI32 == -2147483647 - 1

\* UTF-8 bytes of the strings of the two tests of encode.rs
S_hello_world == Pack(<<104, 101, 108, 108, 111, 32, 119, 111, 114, 108, 100>>)
S_name == Pack(<<110, 97, 109, 101>>)
S_Bananrama == Pack(<<66, 97, 110, 97, 110, 114, 97, 109, 97>>)
S_servers == Pack(<<115, 101, 114, 118, 101, 114, 115>>)
S_ip == Pack(<<105, 112>>)
S_localhost == Pack(<<108, 111, 99, 97, 108, 104, 111, 115, 116, 58, 50, 53, 53, 54, 53>>)
S_Minecraft_Server == Pack(<<77, 105, 110, 101, 99, 114, 97, 102, 116, 32, 83, 101, 114, 118, 101, 114>>)
S_hideAddress == Pack(<<104, 105, 100, 101, 65, 100, 100, 114, 101, 115, 115>>)
\* "a", "b", "k", "r"
S_a == Pack(<<97>>)
S_b == Pack(<<98>>)
S_k == Pack(<<107>>)
S_r == Pack(<<114>>)

\* byte lengths of the long strings: the largest that fits 16 bits, and beyond
LongLens == <<U16Mod - 1, U16Mod, U16Mod + LongExtra>>

\* the inputs are kept as sequences: Tags of different variants are never
\* compared with each other
Scalars ==
    << T("Byte", -128), T("Byte", -1), T("Byte", 1),
       T("Short", -32768), T("Short", -2), T("Short", 258),
       T("Int", MinI32), T("Int", -1), T("Int", 16909060),
       T("Long", MinI32), T("Long", -1), T("Long", 16909060), T("Long", 2147483647),
       T("Float", [s |-> 0, e |-> 127, m |-> 0]),
       T("Float", [s |-> 1, e |-> 128, m |-> 4194305]),
       T("Float", [s |-> 0, e |-> 255, m |-> 4194304]),
       T("Double", [s |-> 0, e |-> 1023, mh |-> 0, ml |-> 0]),
       T("Double", [s |-> 1, e |-> 1024, mh |-> 524288, ml |-> 258]) >>

Arrays ==
    [n \in 1..(MaxArr + 1) |-> T("ByteArray", [i \in 1..(n - 1) |-> 1 - 2 * i])]
    \o [n \in 1..(MaxArr + 1) |-> T("IntArray", [i \in 1..(n - 1) |-> 70000 * i - 100000])]
    \o [n \in 1..(MaxArr + 1) |-> T("LongArray", [i \in 1..(n - 1) |-> 1000000 * i - 1500000])]

Strings == << T("String", <<>>), T("String", S_a), T("String", S_Bananrama) >>

EmptyCompound == T("Compound", Compound(None, <<>>))
SmallCompound ==
    T("Compound", Compound(None, <<KV(S_a, T("Byte", 1)), KV(S_b, T("String", S_a))>>))
DeepCompound ==
    T("Compound", Compound(None, <<KV(S_a, SmallCompound), KV(S_b, EmptyCompound)>>))

\* lists whose elements share one variant
HomLists ==
    [n \in 1..(MaxList + 1) |-> T("List", [i \in 1..(n - 1) |-> T("Int", i - 2)])]
    \o << T("List", <<T("String", S_a), T("String", <<>>)>>),
          T("List", <<EmptyCompound, SmallCompound>>),
          T("List", <<T("List", <<>>), T("List", <<T("Byte", 1)>>)>>),
          T("List", <<T("IntArray", <<>>), T("IntArray", <<-1>>)>>) >>

\* lists whose elements do not share one variant: Tag::List(Vec<Tag>) allows them
HetLists ==
    << T("List", <<T("Int", 1), T("String", Pack(<<97, 98>>))>>),
       T("List", <<T("Byte", -1), T("Short", 258), T("Long", -1)>>),
       T("List", <<T("String", S_a), EmptyCompound, T("Int", -1)>>) >>

Payloads ==
    Scalars \o Arrays \o Strings \o HomLists \o HetLists
    \o <<EmptyCompound, SmallCompound, DeepCompound>>

\* test_hello_world_write
HelloWorld == Compound(Some(S_hello_world), <<KV(S_name, T("String", S_Bananrama))>>)

\* test_servers_write
Servers ==
    Compound(None,
        <<KV(S_servers, T("List", <<T("Compound", Compound(None,
            <<KV(S_ip, T("String", S_localhost)),
              KV(S_name, T("String", S_Minecraft_Server)),
              KV(S_hideAddress, T("Byte", 1))>>))>>))>>)

\* one pair of every variant, keyed "a" .. "l"
EveryVariant ==
    LET vals == << T("Byte", -1), T("Short", -2), T("Int", MinI32), T("Long", -1),
                   T("Float", [s |-> 1, e |-> 128, m |-> 4194305]),
                   T("Double", [s |-> 1, e |-> 1024, mh |-> 524288, ml |-> 258]),
                   T("ByteArray", <<-1, 2>>), T("String", S_Bananrama),
                   T("List", <<T("Long", 1), T("Long", -2)>>), SmallCompound,
                   T("IntArray", <<MinI32, 258>>), T("LongArray", <<-500000, 500000>>) >>
    IN  Compound(Some(S_r), [i \in 1..Len(vals) |-> KV(Pack(<<96 + i>>), vals[i])])

\* trees whose strings all fit the 16-bit length
SmallTrees ==
    [i \in 1..Len(Payloads) |-> Compound(None, <<KV(S_k, Payloads[i])>>)]
    \o << Compound(None, <<>>), Compound(Some(<<>>), <<>>), HelloWorld, Servers, EveryVariant,
          Compound(Some(S_r), <<KV(S_a, T("Int", -1)),
                                KV(S_b, T("List", <<T("Short", 1)>>)),
                                KV(S_k, SmallCompound)>>) >>

\* trees with one long string: as the root name, as a key, as a String value
LongTrees ==
    [i \in 1..Len(LongLens) |-> Compound(Some(Rep(98, LongLens[i])), <<>>)]
    \o [i \in 1..Len(LongLens) |-> Compound(None, <<KV(Rep(98, LongLens[i]), T("Byte", 1))>>)]
    \o [i \in 1..Len(LongLens) |-> Compound(None, <<KV(S_k, T("String", Rep(98, LongLens[i])))>>)]

Trees == SmallTrees \o LongTrees

\* the documents handed to the compressing entry points
GzTrees ==
    << Compound(None, <<>>), HelloWorld, Servers,
       Compound(None, <<KV(S_k, T("String", Rep(98, U16Mod - 1)))>>) >>

----------------------------------------------------------------------------
(* The continuation: what the walk still has to do, head first.            *)
(*   k = "all"    a byteorder write_u8/i8/u16/...: Write::write_all of b   *)
(*   k = "write"  a bare Write::write of b, its Ok(n) ignored              *)
(*   k = "tag"    a call write_tag(writer, t); p is t's path in the tree   *)
(*   k = "str"    a call write_string(writer, b)                           *)
(*   k = "tagret" / "strret"  the Ok(()) that ends such a call             *)
(* ln is the line of encode.rs that makes the call.                        *)

NoTag == T("End", 0)

Item(k, b, t, p, from, ln) ==
    [k |-> k, b |-> b, t |-> t, p |-> p, from |-> from, ln |-> ln]

All(b, ln) == Item("all", b, NoTag, <<>>, 0, ln)
Bare(b, ln) == Item("write", b, NoTag, <<>>, 0, ln)
CallTag(t, p, ln) == Item("tag", <<>>, t, p, 0, ln)
CallStr(s, ln) == Item("str", s, NoTag, <<>>, 0, ln)
TagRet(p, from) == Item("tagret", <<>>, NoTag, p, from, 119)
StrRet(s, from) == Item("strret", s, NoTag, <<>>, from, 126)

\* the concatenation of the sequences f[1], ..., f[n]
RECURSIVE Flat(_, _)
Flat(f, n) == IF n = 0 THEN <<>> ELSE Flat(f, n - 1) \o f[n]

\* write_string: the 16-bit length, then one write of the bytes
write_string(value, from) ==
    << All(Pack(BE(as_u16(BLen(value)), 2)), 123),
       Bare(value, 124),
       StrRet(value, from) >>

\* Tag::ByteArray / IntArray / LongArray arms: the count as u32, then every
\* element in w bytes; ln is the line of the count, ln + 3 that of the elements
write_array(value, w, ln) ==
    << All(Pack(BE(as_u32(Len(value)), 4)), ln) >>
    \o [i \in 1..Len(value) |-> All(Pack(BE(value[i], w)), ln + 3)]

\* write_list with the element's type id repeated before every element
write_list_tagged(value, p) ==
    << IF Len(value) > 0
         THEN All(Pack(<<type_id(value[1])>>), 81)
         ELSE All(Pack(<<0>>), 84),
       All(Pack(BE(as_u32(Len(value)), 4)), 87) >>
    \o Flat([i \in 1..Len(value) |->
               << All(Pack(<<type_id(value[i])>>), 90),
                  CallTag(value[i], Append(p, i), 90) >>],
            Len(value))

\* write_list that leaves out the elements that are not of the first
\* element's variant
write_list_uniform(value, p) ==
    << IF Len(value) > 0
         THEN All(Pack(<<type_id(value[1])>>), 81)
         ELSE All(Pack(<<0>>), 84),
       All(Pack(BE(as_u32(Len(value)), 4)), 87) >>
    \o Flat([i \in 1..Len(value) |->
               IF value[i].id = value[1].id
                 THEN << CallTag(value[i], Append(p, i), 90) >>
                 ELSE << >>],
            Len(value))

\* Tag::List arm: the first element's type id (0 if there is none), the count
\* as u32, then write_tag on every element
write_list(value, p) ==
    << IF Len(value) > 0
         THEN All(Pack(<<type_id(value[1])>>), 81)
         ELSE All(Pack(<<0>>), 84),
       All(Pack(BE(as_u32(Len(value)), 4)), 87) >>
    \o [i \in 1..Len(value) |-> CallTag(value[i], Append(p, i), 90)]

\* Tag::Compound arm: per (name, tag) the type id, the name, write_tag on the
\* tag; then the byte 0
write_compound(value, p) ==
    Flat([i \in 1..Len(value.tags) |->
            << All(Pack(<<type_id(value.tags[i].tag)>>), 95),
               CallStr(value.tags[i].name, 96),
               CallTag(value.tags[i].tag, Append(p, i), 97) >>],
         Len(value.tags))
    \o << All(Pack(<<0>>), 101) >>

\* write_scalar with a Long written as write_i32 would write it
write_scalar_long32(tag) ==
    CASE tag.id = "Byte"   -> << All(Pack(BE(tag.v, 1)), 65) >>
      [] tag.id = "Short"  -> << All(Pack(BE(tag.v, 2)), 66) >>
      [] tag.id = "Int"    -> << All(Pack(BE(tag.v, 4)), 67) >>
      [] tag.id = "Long"   -> << All(Pack(BE(tag.v, 4)), 68) >>
      [] tag.id = "Float"  -> << All(Pack(F32Bytes(tag.v)), 69) >>
      [] tag.id = "Double" -> << All(Pack(F64Bytes(tag.v)), 70) >>

\* a scalar arm: one byteorder call
write_scalar(tag) ==
    CASE tag.id = "Byte"   -> << All(Pack(BE(tag.v, 1)), 65) >>
      [] tag.id = "Short"  -> << All(Pack(BE(tag.v, 2)), 66) >>
      [] tag.id = "Int"    -> << All(Pack(BE(tag.v, 4)), 67) >>
      [] tag.id = "Long"   -> << All(Pack(BE(tag.v, 8)), 68) >>
      [] tag.id = "Float"  -> << All(Pack(F32Bytes(tag.v)), 69) >>
      [] tag.id = "Double" -> << All(Pack(F64Bytes(tag.v)), 70) >>

\* write_tag: the calls the match arm of `tag` makes, in order
write_tag(tag, p) ==
    CASE tag.id = "ByteArray" -> write_array(tag.v, 1, 72)
      [] tag.id = "String"    -> << CallStr(tag.v, 78) >>
      [] tag.id = "List"      -> write_list(tag.v, p)
      [] tag.id = "Compound"  -> write_compound(tag.v, p)
      [] tag.id = "IntArray"  -> write_array(tag.v, 4, 104)
      [] tag.id = "LongArray" -> write_array(tag.v, 8, 111)
      [] OTHER                -> write_scalar(tag)

\* write_compound_tag: type id, name (or ""), then the body
write_compound_tag(compound_tag) ==
    LET name == IF compound_tag.name.some THEN compound_tag.name.s ELSE <<>>
        tag == T("Compound", compound_tag)
    IN  << All(Pack(<<type_id(tag)>>), 57),
           CallStr(name, 58),
           CallTag(tag, <<>>, 60) >>

----------------------------------------------------------------------------
(* The sink.                                                               *)

\* how many bytes a failing write_all may have got through before the error
FailedPrefix(b) == {0} \cup (IF BLen(b) > 1 THEN {BLen(b) - 1} ELSE {})

\* the counts a single write may report without having taken the whole buffer
ShortCounts(b) == {n \in {0, 1, BLen(b) - 1} : n >= 0 /\ n < BLen(b)}

Logged(it, n, ok) ==
    Append(log, [ln |-> it.ln, at |-> BLen(sink), len |-> BLen(it.b), n |-> n, ok |-> ok])

\* the writes so far that took less than their buffer and reported Ok
Shorts == {i \in 1..Len(log) : log[i].ok /\ log[i].n < log[i].len}

\* what has reached the underlying sink after a call that leaves `len` bytes
\* accepted.  A plain writer is the sink itself.  The encoder of a compressing
\* entry point buffers: it passes on all it holds, or nothing
Pass(len) ==
    \/ /\ entry = "plain"
       /\ emitted' = len
       /\ dumps' = dumps
    \/ /\ entry # "plain"
       /\ emitted' = emitted
       /\ dumps' = dumps
    \/ /\ entry # "plain"
       /\ dumps < MaxDumps
       /\ emitted' = len
       /\ dumps' = dumps + 1

\* `?`: the error leaves every frame of the walk at once
Fail ==
    /\ result' = "Err"
    /\ stack' = <<>>
    /\ pc' = IF entry = "plain" THEN "done" ELSE "drop"

----------------------------------------------------------------------------
(* Init and the steps.                                                     *)

\* nothing has been called yet
Fresh ==
    /\ entry = "none"
    /\ pc = "start"
    /\ stack = <<>>
    /\ sink = <<>>
    /\ result = "none"
    /\ log = <<>>
    /\ spans = <<>>
    /\ strs = <<>>
    /\ emitted = 0
    /\ dumps = 0
    /\ footer = FALSE

Init ==
    /\ \E i \in 1..Len(Trees) : tree = Trees[i]
    /\ Fresh

Enter(e) ==
    /\ pc = "start"
    /\ entry' = e
    /\ pc' = "run"
    /\ stack' = write_compound_tag(tree)
    /\ UNCHANGED <<tree, sink, result, log, spans, strs, emitted, dumps, footer>>

\* write_compound_tag called on the caller's writer
WriteCompoundTag == Enter("plain")

\* write_gzip_compound_tag: write_compound_tag on a GzEncoder around the writer
WriteGzipCompoundTag == Enter("gzip")

\* write_zlib_compound_tag: write_compound_tag on a ZlibEncoder around the writer
WriteZlibCompoundTag == Enter("zlib")

Running(k) == pc = "run" /\ stack # <<>> /\ Head(stack).k = k

\* a call of write_tag: its arm's calls come before what the caller goes on with
WriteTag ==
    /\ Running("tag")
    /\ LET it == Head(stack)
       IN  stack' = write_tag(it.t, it.p) \o <<TagRet(it.p, BLen(sink))>> \o Tail(stack)
    /\ UNCHANGED <<tree, entry, pc, sink, result, log, spans, strs, emitted, dumps, footer>>

\* write_tag returns Ok(())
WriteTagReturn ==
    /\ Running("tagret")
    /\ LET it == Head(stack)
       IN  spans' = Append(spans, [p |-> it.p, from |-> it.from, to |-> BLen(sink)])
    /\ stack' = Tail(stack)
    /\ UNCHANGED <<tree, entry, pc, sink, result, log, strs, emitted, dumps, footer>>

\* a call of write_string
WriteString ==
    /\ Running("str")
    /\ stack' = write_string(Head(stack).b, BLen(sink)) \o Tail(stack)
    /\ UNCHANGED <<tree, entry, pc, sink, result, log, spans, strs, emitted, dumps, footer>>

\* write_string returns Ok(())
WriteStringReturn ==
    /\ Running("strret")
    /\ LET it == Head(stack)
       IN  strs' = Append(strs, [s |-> it.b, from |-> it.from, to |-> BLen(sink)])
    /\ stack' = Tail(stack)
    /\ UNCHANGED <<tree, entry, pc, sink, result, log, spans, emitted, dumps, footer>>

\* write_all succeeds: the writer has taken the whole buffer
WriteAllOk ==
    /\ Running("all")
    /\ LET it == Head(stack)
       IN  /\ sink' = BCat(sink, it.b)
           /\ log' = Logged(it, BLen(it.b), TRUE)
           /\ Pass(BLen(sink) + BLen(it.b))
    /\ stack' = Tail(stack)
    /\ UNCHANGED <<tree, entry, pc, result, spans, strs, footer>>

\* write_all fails, after the writer took none or some of the buffer
WriteAllErr ==
    /\ Running("all")
    /\ LET it == Head(stack)
       IN  \E n \in FailedPrefix(it.b) :
             /\ sink' = BCat(sink, BTake(it.b, n))
             /\ log' = Logged(it, n, FALSE)
             /\ Pass(BLen(sink) + n)
    /\ Fail
    /\ UNCHANGED <<tree, entry, spans, strs, footer>>

\* write returns Ok(n) with n the whole buffer
WriteOk ==
    /\ Running("write")
    /\ LET it == Head(stack)
       IN  /\ sink' = BCat(sink, it.b)
           /\ log' = Logged(it, BLen(it.b), TRUE)
           /\ Pass(BLen(sink) + BLen(it.b))
    /\ stack' = Tail(stack)
    /\ UNCHANGED <<tree, entry, pc, result, spans, strs, footer>>

\* write returns Ok(n) with n less than the buffer: the count is not looked at
WriteShort ==
    /\ Running("write")
    /\ Cardinality(Shorts) < MaxShort
    /\ LET it == Head(stack)
       IN  \E n \in ShortCounts(it.b) :
             /\ sink' = BCat(sink, BTake(it.b, n))
             /\ log' = Logged(it, n, TRUE)
             /\ Pass(BLen(sink) + n)
    /\ stack' = Tail(stack)
    /\ UNCHANGED <<tree, entry, pc, result, spans, strs, footer>>

\* write returns Err
WriteErr ==
    /\ Running("write")
    /\ log' = Logged(Head(stack), 0, FALSE)
    /\ Fail
    /\ UNCHANGED <<tree, entry, sink, spans, strs, emitted, dumps, footer>>

\* the outermost write_tag has returned: write_compound_tag returns Ok(())
Return ==
    /\ pc = "run"
    /\ stack = <<>>
    /\ result' = "Ok"
    /\ pc' = IF entry = "plain" THEN "done" ELSE "drop"
    /\ UNCHANGED <<tree, entry, stack, sink, log, spans, strs, emitted, dumps, footer>>

\* the GzEncoder / ZlibEncoder temporary is dropped when the wrapper returns:
\* it tries to finish the stream, and the outcome is not reported
DropEncoder ==
    /\ pc = "drop"
    /\ pc' = "done"
    /\ \/ emitted' = BLen(sink) /\ footer' = TRUE
       \/ emitted' \in {emitted, BLen(sink)} /\ footer' = FALSE
    /\ UNCHANGED <<tree, entry, stack, sink, result, log, spans, strs, dumps>>

\* the steps of the walk and the outcomes of its calls on the writer
Walk ==
    \/ WriteTag
    \/ WriteTagReturn
    \/ WriteString
    \/ WriteStringReturn
    \/ WriteAllOk
    \/ WriteAllErr
    \/ WriteOk
    \/ WriteShort
    \/ WriteErr
    \/ Return

\* write_compound_tag on the caller's writer
Next ==
    \/ WriteCompoundTag
    \/ Walk

Spec == Init /\ [][Next]_vars

\* the compressing entry points, on the documents GzTrees
InitGz ==
    /\ \E i \in 1..Len(GzTrees) : tree = GzTrees[i]
    /\ Fresh

NextGz ==
    \/ WriteGzipCompoundTag
    \/ WriteZlibCompoundTag
    \/ Walk
    \/ DropEncoder

SpecGz == InitGz /\ [][NextGz]_vars

----------------------------------------------------------------------------
(* Reading the recorded run.                                               *)

\* the tag at path p: child i of a Compound is its i-th (name, tag) pair's
\* tag, child i of a List is its i-th element
RECURSIVE Sub(_, _)
Sub(tag, p) ==
    IF p = <<>> THEN tag
    ELSE Sub(IF tag.id = "List" THEN tag.v[Head(p)] ELSE tag.v.tags[Head(p)].tag, Tail(p))

NodeAt(p) == Sub(T("Compound", tree), p)

\* the write_tag calls that have returned, and the bytes each one left
Returned == {spans[i] : i \in 1..Len(spans)}
HasSpan(p) == \E sp \in Returned : sp.p = p
SpanOf(p) == CHOOSE sp \in Returned : sp.p = p
\* the bytes of the sink from offset `from` (0-based) up to offset `to`
Bytes(from, to) == BSub(sink, from, to)
\* the i-th byte of the sink, 1-based
SinkAt(i) == BSub(sink, i - 1, i)[1].c
Size == BLen(sink)

\* a byte sequence read as a big-endian two's-complement integer
RECURSIVE SVal(_)
SVal(b) ==
    IF Len(b) = 0 THEN 0
    ELSE IF Len(b) = 1 THEN (IF b[1] >= 128 THEN b[1] - 256 ELSE b[1])
    ELSE SVal(SubSeq(b, 1, Len(b) - 1)) * 256 + b[Len(b)]

\* a byte sequence of at most 3 significant bytes read as a big-endian
\* unsigned integer
RECURSIVE UVal(_)
UVal(b) == IF Len(b) = 0 THEN 0 ELSE UVal(SubSeq(b, 1, Len(b) - 1)) * 256 + b[Len(b)]

\* every call on the writer so far was accepted in full
AcceptedAll == \A i \in 1..Len(log) : log[i].ok /\ log[i].n = log[i].len

Done == pc = "done"

\* width in bytes of the integer variants and of the elements of the arrays
Width(id) ==
    CASE id = "Byte" -> 1 [] id = "Short" -> 2 [] id = "Int" -> 4 [] id = "Long" -> 8
      [] id = "ByteArray" -> 1 [] id = "IntArray" -> 4 [] id = "LongArray" -> 8

IsInt(id) == id \in {"Byte", "Short", "Int", "Long"}
IsArray(id) == id \in {"ByteArray", "IntArray", "LongArray"}

----------------------------------------------------------------------------
(* C8.  An integer payload is 1, 2, 4 or 8 bytes that read back, as a      *)
(* big-endian two's-complement number, as the value (so their unsigned     *)
(* value is v mod 2^w); an array payload is its length in 4 big-endian     *)
(* bytes, then every element in order in that fixed-width form:            *)
(* 4 + n * (w / 8) bytes in all.                                           *)

IntForm(b, v, w) == BLen(b) = w /\ SVal(Unpack(b)) = v

C8_IntegerPayloads ==
    \A sp \in Returned :
      LET tag == NodeAt(sp.p)
          b == Bytes(sp.from, sp.to)
      IN  /\ IsInt(tag.id) => IntForm(b, tag.v, Width(tag.id))
          /\ IsArray(tag.id) =>
               LET n == Len(tag.v)
                   w == Width(tag.id)
               IN  /\ BLen(b) = 4 + n * w
                   /\ UVal(Unpack(BSub(b, 0, 4))) = n
                   /\ \A i \in 1..n :
                        IntForm(BSub(b, 4 + (i - 1) * w, 4 + i * w), tag.v[i], w)

\* a negative Long and a LongArray of two elements have both been written
C8_Witness ==
    /\ Done /\ result = "Ok"
    /\ \E sp \in Returned : NodeAt(sp.p).id = "Long" /\ NodeAt(sp.p).v < 0
    /\ \E sp \in Returned : NodeAt(sp.p).id = "LongArray" /\ Len(NodeAt(sp.p).v) >= 2

----------------------------------------------------------------------------
(* C5.  A List payload is one element-type-id byte (0 for an empty list,   *)
(* the first element's type id otherwise), the element count in 4          *)
(* big-endian bytes, then the payloads of the elements back to back, with  *)
(* nothing between them.                                                   *)

\* elements 1..k of the list at path p have spans that follow each other from `at`
RECURSIVE Contiguous(_, _, _)
Contiguous(p, k, at) ==
    IF k = 0 THEN at
    ELSE LET prev == Contiguous(p, k - 1, at)
         IN  IF prev >= 0 /\ HasSpan(Append(p, k)) /\ SpanOf(Append(p, k)).from = prev
               THEN SpanOf(Append(p, k)).to
               ELSE -1

ListForm(sp) ==
    LET value == NodeAt(sp.p).v
        n == Len(value)
    IN  /\ sp.to >= sp.from + 5
        /\ SinkAt(sp.from + 1) = (IF n = 0 THEN 0 ELSE type_id(value[1]))
        /\ UVal(Unpack(Bytes(sp.from + 1, sp.from + 5))) = n
        /\ Contiguous(sp.p, n, sp.from + 5) = sp.to

C5_ListPayload ==
    \A sp \in Returned : NodeAt(sp.p).id = "List" => ListForm(sp)

\* an empty list and a list of two or more elements have been written
C5_Witness ==
    /\ Done /\ result = "Ok"
    /\ \E sp \in Returned : NodeAt(sp.p).id = "List" /\ Len(NodeAt(sp.p).v) >= 2
    /\ \E sp \in Returned : NodeAt(sp.p).id = "List" /\ Len(NodeAt(sp.p).v) = 0

----------------------------------------------------------------------------
(* C10.  A List whose elements are of different variants is encoded        *)
(* without error: the first element's type id, the full count, and then    *)
(* every element's payload in the form of that element's own variant.      *)

\* the elements of the list are not all of the first element's variant
Mixed(value) == \E i \in 1..Len(value) : value[i].id # value[1].id

\* b is a payload of the variant of `tag`
OwnForm(tag, b) ==
    CASE IsInt(tag.id) -> IntForm(b, tag.v, Width(tag.id))
      [] tag.id = "String" ->
            /\ BLen(b) = 2 + BLen(tag.v)
            /\ UVal(Unpack(BSub(b, 0, 2))) = BLen(tag.v)
            /\ BSub(b, 2, BLen(b)) = tag.v
      [] tag.id = "Compound" ->
            /\ BLen(b) >= 1
            /\ b[Len(b)].c = 0
            /\ (tag.v.tags = <<>> => b = Pack(<<0>>))
      [] OTHER -> BLen(b) >= 4

C10_MixedListTrusted ==
    /\ Done /\ AcceptedAll => result = "Ok"
    /\ \A sp \in Returned :
         LET tag == NodeAt(sp.p)
         IN  (tag.id = "List" /\ Mixed(tag.v)) =>
               /\ SinkAt(sp.from + 1) = type_id(tag.v[1])
               /\ UVal(Unpack(Bytes(sp.from + 1, sp.from + 5))) = Len(tag.v)
               /\ \A i \in 1..Len(tag.v) :
                    /\ HasSpan(Append(sp.p, i))
                    /\ AcceptedAll =>
                         OwnForm(tag.v[i], Bytes(SpanOf(Append(sp.p, i)).from,
                                                 SpanOf(Append(sp.p, i)).to))

\* the list (Int, String) has been encoded and the call returned Ok
C10_Witness ==
    /\ Done /\ result = "Ok" /\ AcceptedAll
    /\ \E sp \in Returned :
         LET tag == NodeAt(sp.p)
         IN  /\ tag.id = "List"
             /\ Len(tag.v) = 2
             /\ tag.v[1].id = "Int"
             /\ tag.v[2].id = "String"

----------------------------------------------------------------------------
(* C1.  With a sink that accepts every write, write_compound_tag returns   *)
(* Ok and the sink holds exactly: 0x0A, the root name's byte length in 2   *)
(* big-endian bytes, the name's bytes, the compound body; nothing before   *)
(* the 0x0A and nothing after the body's closing 0.                        *)

RootName == IF tree.name.some THEN tree.name.s ELSE <<>>

C1_RootLayout ==
    (Done /\ AcceptedAll) =>
        /\ result = "Ok"
        /\ LET N == BLen(RootName)
           IN  /\ Size >= N + 4
               /\ SinkAt(1) = 10
               /\ UVal(Unpack(Bytes(1, 3))) = N
               /\ Bytes(3, 3 + N) = RootName
               /\ HasSpan(<<>>)
               /\ SpanOf(<<>>).from = 3 + N
               /\ SpanOf(<<>>).to = Size
               /\ SinkAt(Size) = 0

----------------------------------------------------------------------------
(* C3.  A string of more than 65535 bytes is not encoded: write_string     *)
(* never returns Ok for one.                                               *)

C3_LongStringFails ==
    \A i \in 1..Len(strs) : BLen(strs[i].s) < U16Mod

----------------------------------------------------------------------------
(* C4.  The body of a Compound is, per (name, tag) pair in order, the      *)
(* child's type id, the name's length in 2 bytes, the name, the child's    *)
(* payload; then one byte 0.  On success as many sentinel bytes were       *)
(* written as the tree has Compound nodes.                                 *)

\* pairs 1..k of the compound at path p are laid out from `at`: the offset
\* after pair k, or -1
RECURSIVE BodyEnd(_, _, _, _)
BodyEnd(value, p, k, at) ==
    IF k = 0 THEN at
    ELSE LET prev == BodyEnd(value, p, k - 1, at)
             kv == value.tags[k]
             N == BLen(kv.name)
         IN  IF /\ prev >= 0
                /\ Size >= prev + 3 + N
                /\ SinkAt(prev + 1) = type_id(kv.tag)
                /\ UVal(Unpack(Bytes(prev + 1, prev + 3))) = N
                /\ Bytes(prev + 3, prev + 3 + N) = kv.name
                /\ HasSpan(Append(p, k))
                /\ SpanOf(Append(p, k)).from = prev + 3 + N
               THEN SpanOf(Append(p, k)).to
               ELSE -1

RECURSIVE CountCompounds(_)
CountCompounds(tag) ==
    CASE tag.id = "Compound" ->
            LET f[k \in 0..Len(tag.v.tags)] ==
                  IF k = 0 THEN 1 ELSE f[k - 1] + CountCompounds(tag.v.tags[k].tag)
            IN  f[Len(tag.v.tags)]
      [] tag.id = "List" ->
            LET f[k \in 0..Len(tag.v)] ==
                  IF k = 0 THEN 0 ELSE f[k - 1] + CountCompounds(tag.v[k])
            IN  f[Len(tag.v)]
      [] OTHER -> 0

\* the sentinel bytes written: the successful calls of line 101
Sentinels == Cardinality({i \in 1..Len(log) : log[i].ln = 101 /\ log[i].ok})

C4_CompoundBody ==
    /\ AcceptedAll =>
         \A sp \in Returned :
           LET tag == NodeAt(sp.p)
           IN  tag.id = "Compound" =>
                 LET e == BodyEnd(tag.v, sp.p, Len(tag.v.tags), sp.from)
                 IN  e >= 0 /\ SinkAt(e + 1) = 0 /\ sp.to = e + 1
    /\ (Done /\ result = "Ok") => Sentinels = CountCompounds(T("Compound", tree))

----------------------------------------------------------------------------
(* C9.  When write_string returns Ok for a string of N <= 65535 bytes, the *)
(* sink has received the 2-byte length N and then all N bytes, whatever    *)
(* the sink reported for the single write.                                 *)

C9_WholeString ==
    \A i \in 1..Len(strs) :
      LET r == strs[i]
          N == BLen(r.s)
      IN  N < U16Mod => Bytes(r.from, r.to) = BCat(Pack(<<N \div 256, N % 256>>), r.s)

----------------------------------------------------------------------------
(* C6.  Once a write fails, nothing more is written, the call returns Err, *)
(* and the sink holds a prefix of what a fully successful encoding of the  *)
(* same tree produces.                                                     *)

\* the bytes the calls of `items` hand to a writer that accepts everything
RECURSIVE Emit(_), EmitRange(_, _, _)
EmitRange(items, lo, hi) ==
    IF lo > hi THEN <<>>
    ELSE IF lo = hi
         THEN LET it == items[lo]
              IN  CASE it.k \in {"all", "write"} -> it.b
                    [] it.k = "tag" -> Emit(write_tag(it.t, it.p))
                    [] it.k = "str" -> Emit(write_string(it.b, 0))
                    [] OTHER -> <<>>
         ELSE LET mid == (lo + hi) \div 2
              IN  BCat(EmitRange(items, lo, mid), EmitRange(items, mid + 1, hi))

Emit(items) == EmitRange(items, 1, Len(items))

FullEncoding == Emit(write_compound_tag(tree))

IsPrefix(a, b) == BLen(a) <= BLen(b) /\ BTake(b, BLen(a)) = a

Failed == {i \in 1..Len(log) : ~log[i].ok}

C6_FailureStops ==
    Failed # {} =>
        /\ Failed = {Len(log)}
        /\ result = "Err"
        /\ IsPrefix(sink, FullEncoding)

----------------------------------------------------------------------------
(* C7.  When write_gzip_compound_tag or write_zlib_compound_tag returns    *)
(* Ok, all compressed data and the stream's footer have reached the        *)
(* underlying sink.                                                        *)

C7_Finalized ==
    (Done /\ entry \in {"gzip", "zlib"} /\ result = "Ok") =>
        (footer /\ emitted = Size)

----------------------------------------------------------------------------
(* The decoder of section 4.4 of the specification (read_compound_tag),    *)
(* used to state the round trip.  A read yields [ok, v, pos]: whether it   *)
(* succeeded, the value, and the offset after it.                          *)

Bad == [ok |-> FALSE, v |-> 0, pos |-> 0]
Good(v, pos) == [ok |-> TRUE, v |-> v, pos |-> pos]

\* the n bytes from offset pos, as byte values (n small)
Raw(d, pos, n) == Unpack(BSub(d, pos, pos + n))

\* a 32-bit unsigned big-endian count; one of 2^31 or more exceeds any input
\* of the model and is reported as not satisfiable
ReadCount(d, pos) ==
    IF pos + 4 > BLen(d) \/ Raw(d, pos, 1)[1] >= 128 THEN Bad
    ELSE Good(UVal(Raw(d, pos, 4)), pos + 4)

\* section 4.2: the 16-bit length, then that many bytes, valid UTF-8 (the
\* strings of the model are ASCII: a byte of 128 or more is rejected)
ReadString(d, pos) ==
    IF pos + 2 > BLen(d) THEN Bad
    ELSE LET n == UVal(Raw(d, pos, 2))
             b == BSub(d, pos + 2, pos + 2 + n)
         IN  IF pos + 2 + n > BLen(d) \/ \E i \in 1..Len(b) : b[i].c >= 128 THEN Bad
             ELSE Good(b, pos + 2 + n)

ReadF32(q) ==
    [s |-> q[1] \div 128,
     e |-> (q[1] % 128) * 2 + (q[2] \div 128),
     m |-> (q[2] % 128) * 65536 + q[3] * 256 + q[4]]

ReadF64(q) ==
    [s |-> q[1] \div 128,
     e |-> (q[1] % 128) * 16 + (q[2] \div 16),
     mh |-> (q[2] % 16) * 65536 + q[3] * 256 + q[4],
     ml |-> UVal(SubSeq(q, 5, 8))]

VariantOf(id) ==
    CASE id = 1 -> "Byte" [] id = 2 -> "Short" [] id = 3 -> "Int" [] id = 4 -> "Long"
      [] id = 5 -> "Float" [] id = 6 -> "Double" [] id = 7 -> "ByteArray"
      [] id = 8 -> "String" [] id = 9 -> "List" [] id = 10 -> "Compound"
      [] id = 11 -> "IntArray" [] id = 12 -> "LongArray"

\* insert (name -> tag): a later insert for an existing key overwrites in place
Insert(tags, name, tag) ==
    IF \E i \in 1..Len(tags) : tags[i].name = name
      THEN [i \in 1..Len(tags) |-> IF tags[i].name = name THEN KV(name, tag) ELSE tags[i]]
      ELSE Append(tags, KV(name, tag))

RECURSIVE ReadTag(_, _, _), ReadElements(_, _, _, _, _), ReadBody(_, _, _)

\* the payload of a tag of type id `id`
ReadTag(id, d, pos) ==
    LET variant == VariantOf(id)
    IN  CASE id \in 1..4 ->
               LET w == Width(variant)
               IN  IF pos + w > BLen(d) THEN Bad
                   ELSE Good(T(variant, SVal(Raw(d, pos, w))), pos + w)
          [] id = 5 ->
               IF pos + 4 > BLen(d) THEN Bad
               ELSE Good(T(variant, ReadF32(Raw(d, pos, 4))), pos + 4)
          [] id = 6 ->
               IF pos + 8 > BLen(d) THEN Bad
               ELSE Good(T(variant, ReadF64(Raw(d, pos, 8))), pos + 8)
          [] id \in {7, 11, 12} ->
               LET c == ReadCount(d, pos)
                   w == Width(variant)
               IN  IF ~c.ok THEN Bad
                   ELSE IF c.pos + c.v * w > BLen(d) THEN Bad
                   ELSE Good(T(variant,
                                [i \in 1..c.v |-> SVal(Raw(d, c.pos + (i - 1) * w, w))]),
                             c.pos + c.v * w)
          [] id = 8 ->
               LET r == ReadString(d, pos)
               IN  IF r.ok THEN Good(T(variant, r.v), r.pos) ELSE Bad
          [] id = 9 ->
               IF pos + 1 > BLen(d) THEN Bad
               ELSE LET el == Raw(d, pos, 1)[1]
                        c == ReadCount(d, pos + 1)
                    IN  IF ~c.ok \/ el > 12 \/ (el = 0 /\ c.v # 0) THEN Bad
                        ELSE ReadElements(el, d, c.pos, c.v, <<>>)
          [] id = 10 -> ReadBody(d, pos, <<>>)

\* n more payload-only elements of type id `el`
ReadElements(el, d, pos, n, acc) ==
    IF n = 0 THEN Good(T("List", acc), pos)
    ELSE LET r == ReadTag(el, d, pos)
         IN  IF r.ok THEN ReadElements(el, d, r.pos, n - 1, Append(acc, r.v)) ELSE Bad

\* a compound body: (type id, name, payload) until the byte 0
ReadBody(d, pos, acc) ==
    IF pos + 1 > BLen(d) THEN Bad
    ELSE LET id == Raw(d, pos, 1)[1]
         IN  IF id = 0 THEN Good(T("Compound", Compound(None, acc)), pos + 1)
             ELSE IF id > 12 THEN Bad
             ELSE LET name == ReadString(d, pos + 1)
                  IN  IF ~name.ok THEN Bad
                      ELSE LET r == ReadTag(id, d, name.pos)
                           IN  IF r.ok THEN ReadBody(d, r.pos, Insert(acc, name.v, r.v))
                               ELSE Bad

\* read_compound_tag: the Compound type id, the root name, the body
read_compound_tag(d) ==
    IF BLen(d) < 1 \/ Raw(d, 0, 1)[1] # 10 THEN Bad
    ELSE LET name == ReadString(d, 1)
         IN  IF ~name.ok THEN Bad
             ELSE LET r == ReadBody(d, name.pos, <<>>)
                  IN  IF r.ok THEN Good(Compound(Some(name.v), r.v.v.tags), r.pos) ELSE Bad

\* equality of trees, value for value and key order for key order; values are
\* compared only between tags of the same variant
RECURSIVE TagEq(_, _)
TagEq(a, b) ==
    /\ a.id = b.id
    /\ CASE a.id = "List" ->
              /\ Len(a.v) = Len(b.v)
              /\ \A i \in 1..Len(a.v) : TagEq(a.v[i], b.v[i])
         [] a.id = "Compound" ->
              /\ Len(a.v.tags) = Len(b.v.tags)
              /\ \A i \in 1..Len(a.v.tags) :
                   /\ a.v.tags[i].name = b.v.tags[i].name
                   /\ TagEq(a.v.tags[i].tag, b.v.tags[i].tag)
         [] OTHER -> a.v = b.v

----------------------------------------------------------------------------
(* C2.  Round trip: the bytes write_compound_tag produced decode to a tree *)
(* equal to the one that was encoded, names, values and key order.         *)

\* every List of the tree has elements of one variant
RECURSIVE Homogeneous(_)
Homogeneous(tag) ==
    CASE tag.id = "List" ->
            /\ ~Mixed(tag.v)
            /\ \A i \in 1..Len(tag.v) : Homogeneous(tag.v[i])
      [] tag.id = "Compound" ->
            \A i \in 1..Len(tag.v.tags) : Homogeneous(tag.v.tags[i].tag)
      [] OTHER -> TRUE

C2_RoundTrip ==
    (Done /\ result = "Ok" /\ AcceptedAll /\ Homogeneous(T("Compound", tree))) =>
        LET r == read_compound_tag(sink)
        IN  /\ r.ok
            /\ r.pos = Size
            /\ r.v.name.s = RootName
            /\ TagEq(T("Compound", r.v), T("Compound", tree))

====
